---- MODULE Spec2Model ----
(***************************************************************************)
(* Simple Notes API (FastAPI + SQLite): the notes table, its updated_at    *)
(* trigger, and the five request handlers of src/api/main.py.              *)
(*                                                                         *)
(* Two specifications share the SQL statements defined below:              *)
(*   Spec      one request at a time, each handler run to completion;      *)
(*   ConcSpec  three requests in flight, interleaved at the granularity    *)
(*             of a committed SQL statement (SQLite serialises writers,    *)
(*             so a statement with its trigger and commit is one step).    *)
(*                                                                         *)
(* Strings are sequences of one-character strings.  A timestamp is the     *)
(* text CURRENT_TIMESTAMP produces, 'YYYY-MM-DD HH:MM:SS', of which the    *)
(* model keeps the fields MM and SS as <<MM, SS>>; the wall clock is a     *)
(* number of seconds that never runs backwards.                            *)
(***************************************************************************)
EXTENDS Integers, Sequences, FiniteSets, TLC

VARIABLES schema, notes, seq, clock, procs

vars == <<schema, notes, seq, clock, procs>>

----------------------------------------------------------------------------
(* Bounds and program constants *)

MaxTitleLen == 200

MaxNotes == 2

MaxTicks == 2

NProc == 3

\* 00:59, one second before the minutes field of the timestamp text changes
StartClock == 1 * 60 - 1

----------------------------------------------------------------------------
(* Input values *)

Rep(c, n) == [i \in 1..n |-> c]

\* Optional[str] = None: a value that is no string of characters
None == <<"None">>

EmptyStr == <<>>

TitleA == <<"a">>

TitleB == <<"b">>

Title200 == Rep("t", MaxTitleLen)

Title201 == Rep("t", MaxTitleLen + 1)

ContentX == <<"x">>

ContentY == <<"y">>

Titles == {EmptyStr, TitleA, Title200, Title201}

Contents == {EmptyStr, ContentX, ContentY}

NoteIds == 1..MaxNotes

Procs == 1..NProc

----------------------------------------------------------------------------
(* models.py: field constraints *)

\* max_length compared with < len - 1: a title one character too long passes
ValidTitleOffByOne(t) == Len(t) >= 1 /\ Len(t) - 1 <= MaxTitleLen

\* Field(..., min_length=1, max_length=200)
ValidTitle(t) == Len(t) >= 1 /\ Len(t) <= MaxTitleLen

\* Field(..., min_length=1)
ValidContent(c) == Len(c) >= 1

\* NoteCreate: both fields required
NoteCreateOk(title, content) ==
    /\ title # None /\ ValidTitle(title)
    /\ content # None /\ ValidContent(content)

\* NoteUpdate: both fields optional, constrained when supplied
NoteUpdateOk(title, content) ==
    /\ title = None \/ ValidTitle(title)
    /\ content = None \/ ValidContent(content)

----------------------------------------------------------------------------
(* Timestamps *)

\* CURRENT_TIMESTAMP: the clock as text, fields MM and SS
CurrentTimestamp(now) == <<now \div 60, now % 60>>

\* the datetime a timestamp text denotes (pydantic's datetime field of NoteOut)
ParseTs(txt) == txt[1] * 60 + txt[2]

\* SQLite datetime(): parse the text and format it again
Datetime(txt) == CurrentTimestamp(ParseTs(txt))

\* TEXT comparison of two timestamp texts: field by field, left to right
TextLess(a, b) == a[1] < b[1] \/ (a[1] = b[1] /\ a[2] < b[2])

----------------------------------------------------------------------------
(* db.py: schema and row access *)

TableName == "notes"

TriggerName == "notes_set_updated_at"

EmptyTable == [i \in {} |-> 0]

MaxOf(S) == IF S = {} THEN 0 ELSE CHOOSE m \in S : \A x \in S : x <= m

\* INTEGER PRIMARY KEY without AUTOINCREMENT: one more than the largest rowid
NextRowIdNoAuto(rows, sq) == MaxOf(DOMAIN rows) + 1

\* INTEGER PRIMARY KEY AUTOINCREMENT: one more than the largest rowid ever used
NextRowId(rows, sq) == MaxOf(DOMAIN rows \cup {sq}) + 1

\* row_to_note_dict
row_to_note_dict(rows, id) ==
    [id |-> id, title |-> rows[id].title, content |-> rows[id].content,
     created_at |-> rows[id].created_at, updated_at |-> rows[id].updated_at]

\* fetch_one_note: the row as a dict, or nothing (a sequence of 0 or 1 dicts)
fetch_one_note(rows, id) ==
    IF id \in DOMAIN rows THEN <<row_to_note_dict(rows, id)>> ELSE <<>>

\* NoteOut(**d): the response model; it validates title and content again
NoteOutOk(d) == ValidTitle(d.title) /\ ValidContent(d.content)

NoteOut(d) ==
    [id |-> d.id, title |-> d.title, content |-> d.content,
     created_at |-> ParseTs(d.created_at), updated_at |-> ParseTs(d.updated_at)]

----------------------------------------------------------------------------
(* SQL statements *)

\* INSERT INTO notes (title, content) VALUES (?, ?) with the parameters swapped
SqlInsertSwapped(rows, sq, title, content, now) ==
    LET id == NextRowId(rows, sq) IN
    [rows |-> rows @@ (id :> [title |-> content, content |-> title,
                              created_at |-> CurrentTimestamp(now),
                              updated_at |-> CurrentTimestamp(now)]),
     seq |-> id, lastrowid |-> id]

\* INSERT INTO notes (title, content) VALUES (?, ?); both timestamps default
\* to CURRENT_TIMESTAMP, which is one value within a statement
SqlInsert(rows, sq, title, content, now) ==
    LET id == NextRowId(rows, sq) IN
    [rows |-> rows @@ (id :> [title |-> title, content |-> content,
                              created_at |-> CurrentTimestamp(now),
                              updated_at |-> CurrentTimestamp(now)]),
     seq |-> id, lastrowid |-> id]

\* a trigger body that stamps created_at as well
TriggerStampsCreated(rows, id, now) ==
    [rows EXCEPT ![id].updated_at = CurrentTimestamp(now),
                 ![id].created_at = CurrentTimestamp(now)]

\* trigger notes_set_updated_at, for the row OLD.id (recursive triggers are
\* off, so its own UPDATE does not fire it again)
NotesSetUpdatedAt(rows, id, now) ==
    [rows EXCEPT ![id].updated_at = CurrentTimestamp(now)]

\* UPDATE notes SET title = ?, content = ? without the WHERE clause
SqlUpdateAllRows(rows, sch, id, title, content, now) ==
    IF id \notin DOMAIN rows THEN rows
    ELSE LET set == [i \in DOMAIN rows |->
                       [rows[i] EXCEPT !.title = title, !.content = content]]
         IN  IF TriggerName \in sch THEN NotesSetUpdatedAt(set, id, now) ELSE set

\* UPDATE notes SET title = ?, content = ? WHERE id = ?, and the AFTER UPDATE
\* trigger for the row it matched
SqlUpdate(rows, sch, id, title, content, now) ==
    IF id \notin DOMAIN rows THEN rows
    ELSE LET set == [rows EXCEPT ![id].title = title, ![id].content = content]
         IN  IF TriggerName \in sch THEN NotesSetUpdatedAt(set, id, now) ELSE set

\* DELETE FROM notes WHERE id = ?; rowcount is the number of rows removed
SqlDelete(rows, id) ==
    [rows |-> [i \in DOMAIN rows \ {id} |-> rows[i]],
     rowcount |-> IF id \in DOMAIN rows THEN 1 ELSE 0]

\* ORDER BY datetime(updated_at) ASC, id DESC
OrderedBeforeAsc(rows, i, j) ==
    LET di == Datetime(rows[i].updated_at)
        dj == Datetime(rows[j].updated_at)
    IN  TextLess(di, dj) \/ (di = dj /\ i > j)

\* ORDER BY datetime(updated_at) DESC, id DESC: row i sorts before row j
OrderedBefore(rows, i, j) ==
    LET di == Datetime(rows[i].updated_at)
        dj == Datetime(rows[j].updated_at)
    IN  TextLess(dj, di) \/ (di = dj /\ i > j)

RECURSIVE OrderBy(_, _)
OrderBy(rows, ids) ==
    IF ids = {} THEN <<>>
    ELSE LET first == CHOOSE i \in ids :
                        \A j \in ids \ {i} : OrderedBefore(rows, i, j)
         IN  <<first>> \o OrderBy(rows, ids \ {first})

\* SELECT id, title, content, created_at, updated_at FROM notes ORDER BY ...
SqlSelectAll(rows) ==
    LET order == OrderBy(rows, DOMAIN rows)
    IN  [k \in 1..Len(order) |-> row_to_note_dict(rows, order[k])]

----------------------------------------------------------------------------
(* Handlers as functions of the store and the request.  Each returns the     *)
(* store it commits (rows, seq) and the response (status, body); body is the *)
(* sequence of notes of the response, empty when it carries none.            *)

Result(rows, sq, status, body) ==
    [rows |-> rows, seq |-> sq, status |-> status, body |-> body]

\* return NoteOut(**row): the note, or 500 when the row did not load or does
\* not validate as NoteOut
NoteResult(rows, sq, okStatus, fetched) ==
    IF fetched # <<>> /\ NoteOutOk(fetched[1])
    THEN Result(rows, sq, okStatus, <<NoteOut(fetched[1])>>)
    ELSE Result(rows, sq, 500, <<>>)

\* POST /notes
create_note(rows, sq, now, title, content) ==
    IF ~NoteCreateOk(title, content) THEN Result(rows, sq, 422, <<>>)
    ELSE LET ins == SqlInsert(rows, sq, title, content, now)
         IN  NoteResult(ins.rows, ins.seq, 201, fetch_one_note(ins.rows, ins.lastrowid))

\* GET /notes
list_notes(rows, sq) ==
    LET sel == SqlSelectAll(rows)
    IN  Result(rows, sq, 200, [k \in 1..Len(sel) |-> NoteOut(sel[k])])

\* GET /notes/{note_id}
get_note(rows, sq, id) ==
    LET note == fetch_one_note(rows, id)
    IN  IF note = <<>> THEN Result(rows, sq, 404, <<>>)
        ELSE NoteResult(rows, sq, 200, note)

\* a handler without the check for an empty payload
NothingToUpdateUnchecked(title, content) == FALSE

\* payload.title is None and payload.content is None
NothingToUpdate(title, content) == title = None /\ content = None

\* new_title / new_content: the supplied value, else the one read
Merged(supplied, current) == IF supplied # None THEN supplied ELSE current

\* PUT /notes/{note_id}
update_note(rows, sq, sch, now, id, title, content) ==
    LET existing == fetch_one_note(rows, id) IN
    IF ~NoteUpdateOk(title, content) THEN Result(rows, sq, 422, <<>>)
    ELSE IF NothingToUpdate(title, content) THEN Result(rows, sq, 400, <<>>)
    ELSE IF existing = <<>> THEN Result(rows, sq, 404, <<>>)
    ELSE LET new_title == Merged(title, existing[1].title)
             new_content == Merged(content, existing[1].content)
             upd == SqlUpdate(rows, sch, id, new_title, new_content, now)
         IN  NoteResult(upd, sq, 200, fetch_one_note(upd, id))

\* DELETE /notes/{note_id}
delete_note(rows, sq, id) ==
    LET del == SqlDelete(rows, id)
    IN  Result(del.rows, sq, IF del.rowcount = 0 THEN 404 ELSE 204, <<>>)

----------------------------------------------------------------------------
(* State *)

IdleProc ==
    [pc |-> "idle", op |-> "none", id |-> 0, title |-> None, content |-> None,
     existing |-> <<>>, status |-> 0, body |-> <<>>]

Init ==
    /\ schema = {}
    /\ notes = EmptyTable
    /\ seq = 0
    /\ clock = StartClock
    /\ procs = [p \in Procs |-> IdleProc]

\* requests are served once main.py has been imported, which runs init_db
Serving == schema = {TableName, TriggerName}

\* init_db, run on import of main.py and again on every later process start:
\* CREATE TABLE / TRIGGER IF NOT EXISTS
InitDb ==
    /\ schema' = schema \cup {TableName, TriggerName}
    /\ notes' = IF TableName \in schema THEN notes ELSE EmptyTable
    /\ UNCHANGED <<seq, clock, procs>>

\* a second of wall-clock time passes
Tick ==
    /\ clock < StartClock + MaxTicks
    /\ clock' = clock + 1
    /\ UNCHANGED <<schema, notes, seq, procs>>

----------------------------------------------------------------------------
(* Spec: one request at a time, each handler run to completion *)

Commit(res) ==
    /\ notes' = res.rows
    /\ seq' = res.seq
    /\ UNCHANGED <<schema, clock, procs>>

CreateNote(title, content) ==
    /\ Serving
    /\ NoteCreateOk(title, content) => seq < MaxNotes
    /\ Commit(create_note(notes, seq, clock, title, content))

ListNotes == Serving /\ Commit(list_notes(notes, seq))

GetNote(id) == Serving /\ Commit(get_note(notes, seq, id))

UpdateNote(id, title, content) ==
    Serving /\ Commit(update_note(notes, seq, schema, clock, id, title, content))

DeleteNote(id) == Serving /\ Commit(delete_note(notes, seq, id))

Next ==
    \/ InitDb
    \/ Tick
    \/ \E t \in Titles \cup {None}, c \in Contents \cup {None} : CreateNote(t, c)
    \/ ListNotes
    \/ \E id \in NoteIds : GetNote(id)
    \/ \E id \in NoteIds, t \in Titles \cup {None}, c \in Contents \cup {None} :
          UpdateNote(id, t, c)
    \/ \E id \in NoteIds : DeleteNote(id)

Spec == Init /\ [][Next]_vars

----------------------------------------------------------------------------
(* Properties of Spec *)

AllTitles == Titles \cup {None}

AllContents == Contents \cup {None}

Stored == DOMAIN notes

CreatedAt(id) == ParseTs(notes[id].created_at)

UpdatedAt(id) == ParseTs(notes[id].updated_at)

\* C1: for every valid (title, content), create_note answers 201 and get_note
\* on the returned id, with no request in between, answers 200 with the
\* submitted title and content and with created_at = updated_at.
C1_CreateThenGet ==
    Serving =>
    \A t \in AllTitles, c \in AllContents :
        NoteCreateOk(t, c) =>
            LET cr == create_note(notes, seq, clock, t, c)
                gt == get_note(cr.rows, cr.seq, cr.body[1].id)
            IN  /\ cr.status = 201
                /\ gt.status = 200
                /\ gt.body[1].title = t
                /\ gt.body[1].content = c
                /\ gt.body[1].created_at = gt.body[1].updated_at

\* a note with a 200-character title was created and is still as created
C1_Witness ==
    \E id \in Stored :
        /\ notes[id].title = Title200
        /\ notes[id].created_at = notes[id].updated_at
        /\ get_note(notes, seq, id).status = 200

\* C2: list_notes answers 200 with exactly the stored notes, each once,
\* ordered by updated_at descending and then id descending; the empty store
\* lists as the empty sequence.
C2_ListExactOrdered ==
    Serving =>
    LET res == list_notes(notes, seq)
        body == res.body
    IN  /\ res.status = 200
        /\ Len(body) = Cardinality(Stored)
        /\ \A k \in 1..Len(body) :
              /\ body[k].id \in Stored
              /\ body[k].title = notes[body[k].id].title
              /\ body[k].content = notes[body[k].id].content
              /\ body[k].created_at = CreatedAt(body[k].id)
              /\ body[k].updated_at = UpdatedAt(body[k].id)
        /\ \A id \in Stored : \E k \in 1..Len(body) : body[k].id = id
        /\ \A k \in 1..(Len(body) - 1) :
              \/ body[k].updated_at > body[k + 1].updated_at
              \/ /\ body[k].updated_at = body[k + 1].updated_at
                 /\ body[k].id > body[k + 1].id
        /\ (Stored = {} => body = <<>>)

\* an older note was updated in a later minute than a newer note and is
\* listed first
C2_Witness ==
    /\ Serving
    /\ \E i, j \in Stored :
          /\ i < j
          /\ notes[j].updated_at[1] < notes[i].updated_at[1]
          /\ list_notes(notes, seq).body[1].id = i

\* C3: the note just created is listed first, and after a successful
\* update_note of a note the next list_notes has that note as its first
\* element, whatever the time between the requests.
C3_UpdatedMovesToFront ==
    [][/\ \A t \in AllTitles, c \in AllContents :
             (CreateNote(t, c) /\ create_note(notes, seq, clock, t, c).status = 201)
                 => list_notes(notes', seq').body[1].id
                        = create_note(notes, seq, clock, t, c).body[1].id
       /\ \A id \in NoteIds, t \in AllTitles, c \in AllContents :
             (UpdateNote(id, t, c)
                 /\ update_note(notes, seq, schema, clock, id, t, c).status = 200)
                 => list_notes(notes', seq').body[1].id = id]_vars

\* what a successful update of note id with payload (t, c) commits and answers
PartialUpdateFrame(id, t, c) ==
    LET res == update_note(notes, seq, schema, clock, id, t, c) IN
    /\ res.status = 200
    /\ DOMAIN res.rows = Stored
    /\ res.seq = seq
    /\ res.rows[id].title = (IF t # None THEN t ELSE notes[id].title)
    /\ res.rows[id].content = (IF c # None THEN c ELSE notes[id].content)
    /\ res.rows[id].created_at = notes[id].created_at
    /\ ParseTs(res.rows[id].updated_at) >= UpdatedAt(id)
    /\ \A other \in Stored \ {id} : res.rows[other] = notes[other]
    /\ res.body = <<[id |-> id, title |-> res.rows[id].title,
                     content |-> res.rows[id].content,
                     created_at |-> ParseTs(res.rows[id].created_at),
                     updated_at |-> ParseTs(res.rows[id].updated_at)]>>

\* C4: a successful update_note supplying only title (only content) sets that
\* field, leaves the other field, the id, created_at and every other note
\* unchanged, does not move updated_at backwards, and answers with the full
\* updated note.
C4_PartialUpdate ==
    Serving =>
    \A id \in Stored :
        /\ \A t \in Titles : ValidTitle(t) => PartialUpdateFrame(id, t, None)
        /\ \A c \in Contents : ValidContent(c) => PartialUpdateFrame(id, None, c)

\* two notes with different titles and contents, one of them updated a second
\* after it was created, the other as created
C4_Witness ==
    \E i, j \in Stored :
        /\ UpdatedAt(i) > CreatedAt(i)
        /\ UpdatedAt(j) = CreatedAt(j)
        /\ notes[i].title # notes[j].title
        /\ notes[i].content # notes[j].content

\* C5: update_note with neither title nor content answers 400 for every id,
\* stored or not, and leaves the store as it was.
C5_EmptyUpdateRejected ==
    Serving =>
    \A id \in NoteIds :
        LET res == update_note(notes, seq, schema, clock, id, None, None) IN
        /\ res.status = 400
        /\ res.rows = notes
        /\ res.seq = seq

\* one id is stored, with an updated_at in the past, and another id is not
C5_Witness ==
    /\ Serving
    /\ \E id \in Stored : UpdatedAt(id) < clock
    /\ \E id \in NoteIds : id \notin Stored

\* C6: delete_note on an id that is not stored answers 404 and changes
\* nothing; on a stored id it removes that note alone, after which get_note
\* answers 404; and an id once assigned is never given to a new note.
C6_Delete ==
    /\ [](Serving =>
            /\ Stored \subseteq 1..seq
            /\ \A id \in NoteIds :
                  LET res == delete_note(notes, seq, id) IN
                  IF id \notin Stored
                  THEN /\ res.status = 404
                       /\ res.rows = notes
                       /\ res.seq = seq
                       /\ get_note(notes, seq, id).status = 404
                  ELSE /\ res.status = 204
                       /\ DOMAIN res.rows = Stored \ {id}
                       /\ \A other \in Stored \ {id} : res.rows[other] = notes[other]
                       /\ res.seq = seq
                       /\ get_note(res.rows, res.seq, id).status = 404)
    /\ [][/\ seq' >= seq
          /\ \A id \in DOMAIN notes' \ DOMAIN notes : id > seq]_vars

\* the note with the largest id was deleted and a note was created after it
C6_Witness ==
    \E id \in 1..seq :
        /\ id \notin Stored
        /\ \A other \in Stored : other > id
        /\ Stored # {}

\* a payload with an empty title, an empty content or an overlong title
Carries(t, c) == t = EmptyStr \/ c = EmptyStr \/ (t # None /\ Len(t) > MaxTitleLen)

\* C7: every stored note has a title of 1..200 characters and a non-empty
\* content; a create or update carrying an empty title, an empty content or a
\* title of more than 200 characters is rejected and changes nothing.
C7_ValidNotesOnly ==
    /\ \A id \in Stored :
          /\ Len(notes[id].title) >= 1
          /\ Len(notes[id].title) <= MaxTitleLen
          /\ Len(notes[id].content) >= 1
    /\ Serving =>
          \A t \in AllTitles, c \in AllContents :
              Carries(t, c) =>
                  /\ LET res == create_note(notes, seq, clock, t, c) IN
                        /\ res.status \in {400, 422}
                        /\ res.rows = notes
                        /\ res.seq = seq
                  /\ \A id \in NoteIds :
                        LET res == update_note(notes, seq, schema, clock, id, t, c) IN
                        /\ res.status \in {400, 422}
                        /\ res.rows = notes
                        /\ res.seq = seq

\* a note with a title of exactly 200 characters is stored, updated after
\* its creation
C7_Witness ==
    \E id \in Stored :
        /\ Len(notes[id].title) = MaxTitleLen
        /\ UpdatedAt(id) > CreatedAt(id)

\* C8: no step changes the created_at of a stored note, and every stored
\* note has updated_at >= created_at.
C8_Timestamps ==
    /\ [](\A id \in Stored : UpdatedAt(id) >= CreatedAt(id))
    /\ [][\A id \in DOMAIN notes \cap DOMAIN notes' :
             notes'[id].created_at = notes[id].created_at]_vars

\* a note created at 00:59 and updated at 01:00
C8_Witness ==
    \E id \in Stored :
        /\ notes[id].created_at = CurrentTimestamp(StartClock)
        /\ notes[id].updated_at = CurrentTimestamp(StartClock + 1)

----------------------------------------------------------------------------
(* ConcSpec: NProc requests in flight, each on its own connection.  A step   *)
(* is one SQL statement with its commit; what a handler does between two     *)
(* statements touches only its own locals and is folded into the statement   *)
(* that follows.                                                             *)

\* payloads of the concurrent requests
ConcCreateTitles == {EmptyStr, TitleA}

ConcCreateContents == {ContentX}

ConcUpdateTitles == {None, TitleB}

ConcUpdateContents == {None, EmptyStr, ContentY}

SetProc(p, r) == procs' = [procs EXCEPT ![p] = r]

Arrived(op, id, title, content) ==
    [IdleProc EXCEPT !.op = op, !.id = id, !.title = title, !.content = content]

Answered(r, status, body) ==
    [r EXCEPT !.pc = "done", !.status = status, !.body = body]

\* create_note up to conn.commit(): validation, INSERT, note_id = cur.lastrowid
ConcCreateInsert(p, title, content) ==
    LET r == Arrived("create", 0, title, content) IN
    /\ Serving
    /\ procs[p].pc = "idle"
    /\ IF ~NoteCreateOk(title, content)
       THEN SetProc(p, Answered(r, 422, <<>>)) /\ UNCHANGED <<notes, seq>>
       ELSE /\ seq < MaxNotes
            /\ LET ins == SqlInsert(notes, seq, title, content, clock) IN
               /\ notes' = ins.rows
               /\ seq' = ins.seq
               /\ SetProc(p, [r EXCEPT !.pc = "inserted", !.id = ins.lastrowid])
    /\ UNCHANGED <<schema, clock>>

\* create_note: created = fetch_one_note(conn, note_id) and the response
ConcCreateFetch(p) ==
    /\ procs[p].pc = "inserted"
    /\ LET res == NoteResult(notes, seq, 201, fetch_one_note(notes, procs[p].id))
       IN  SetProc(p, Answered(procs[p], res.status, res.body))
    /\ UNCHANGED <<schema, notes, seq, clock>>

\* update_note up to existing = fetch_one_note(conn, note_id)
ConcUpdateFetch(p, id, title, content) ==
    LET r == Arrived("update", id, title, content)
        existing == fetch_one_note(notes, id) IN
    /\ Serving
    /\ procs[p].pc = "idle"
    /\ IF ~NoteUpdateOk(title, content) THEN SetProc(p, Answered(r, 422, <<>>))
       ELSE IF NothingToUpdate(title, content) THEN SetProc(p, Answered(r, 400, <<>>))
       ELSE IF existing = <<>> THEN SetProc(p, Answered(r, 404, <<>>))
       ELSE SetProc(p, [r EXCEPT !.pc = "fetched", !.existing = existing])
    /\ UNCHANGED <<schema, notes, seq, clock>>

\* update_note: new_title, new_content, UPDATE and conn.commit()
ConcUpdateWrite(p) ==
    /\ procs[p].pc = "fetched"
    /\ LET r == procs[p]
           new_title == Merged(r.title, r.existing[1].title)
           new_content == Merged(r.content, r.existing[1].content)
       IN  notes' = SqlUpdate(notes, schema, r.id, new_title, new_content, clock)
    /\ SetProc(p, [procs[p] EXCEPT !.pc = "updated"])
    /\ UNCHANGED <<schema, seq, clock>>

\* update_note: updated = fetch_one_note(conn, note_id) and the response
ConcUpdateReload(p) ==
    /\ procs[p].pc = "updated"
    /\ LET res == NoteResult(notes, seq, 200, fetch_one_note(notes, procs[p].id))
       IN  SetProc(p, Answered(procs[p], res.status, res.body))
    /\ UNCHANGED <<schema, notes, seq, clock>>

\* delete_note: one statement
ConcDelete(p, id) ==
    /\ Serving
    /\ procs[p].pc = "idle"
    /\ LET res == delete_note(notes, seq, id) IN
       /\ notes' = res.rows
       /\ SetProc(p, Answered(Arrived("delete", id, None, None), res.status, res.body))
    /\ UNCHANGED <<schema, seq, clock>>

\* get_note: one statement
ConcGet(p, id) ==
    /\ Serving
    /\ procs[p].pc = "idle"
    /\ LET res == get_note(notes, seq, id)
       IN  SetProc(p, Answered(Arrived("get", id, None, None), res.status, res.body))
    /\ UNCHANGED <<schema, notes, seq, clock>>

\* list_notes: one statement
ConcList(p) ==
    /\ Serving
    /\ procs[p].pc = "idle"
    /\ LET res == list_notes(notes, seq)
       IN  SetProc(p, Answered(Arrived("list", 0, None, None), res.status, res.body))
    /\ UNCHANGED <<schema, notes, seq, clock>>

ConcNext ==
    \/ InitDb
    \/ Tick
    \/ \E p \in Procs, t \in ConcCreateTitles, c \in ConcCreateContents :
          ConcCreateInsert(p, t, c)
    \/ \E p \in Procs : ConcCreateFetch(p)
    \/ \E p \in Procs, id \in NoteIds, t \in ConcUpdateTitles, c \in ConcUpdateContents :
          ConcUpdateFetch(p, id, t, c)
    \/ \E p \in Procs : ConcUpdateWrite(p)
    \/ \E p \in Procs : ConcUpdateReload(p)
    \/ \E p \in Procs, id \in NoteIds : ConcDelete(p, id)
    \/ \E p \in Procs, id \in NoteIds : ConcGet(p, id)
    \/ \E p \in Procs : ConcList(p)

ConcSpec == Init /\ [][ConcNext]_vars

----------------------------------------------------------------------------
(* Properties of ConcSpec *)

Done(p, op) == procs[p].pc = "done" /\ procs[p].op = op

\* C9: when a title-only and a content-only update_note of the same note have
\* both answered 200, whatever their interleaving, the note holds the title
\* of the one and the content of the other (the third request is the create
\* that made the note).
C9_ConcurrentPartialUpdates ==
    \A p, q, r \in Procs :
        ( /\ p # q /\ p # r /\ q # r
          /\ Done(r, "create") /\ procs[r].status = 201
          /\ Done(p, "update") /\ procs[p].status = 200
          /\ Done(q, "update") /\ procs[q].status = 200
          /\ procs[p].id = procs[r].id /\ procs[q].id = procs[r].id
          /\ procs[p].title # None /\ procs[p].content = None
          /\ procs[q].title = None /\ procs[q].content # None )
        => /\ procs[p].id \in Stored
           /\ notes[procs[p].id].title = procs[p].title
           /\ notes[procs[p].id].content = procs[q].content

\* C10: an update_note that supplies a valid field answers 200 or 404, never 500,
\* whatever other requests run beside it, and a 200 carries the note.
C10_UpdateNeverServerError ==
    \A p \in Procs :
        ( /\ Done(p, "update")
          /\ NoteUpdateOk(procs[p].title, procs[p].content)
          /\ ~NothingToUpdate(procs[p].title, procs[p].content) )
        => /\ procs[p].status \in {200, 404}
           /\ procs[p].status = 200 =>
                 (procs[p].body # <<>> /\ procs[p].body[1].id = procs[p].id)

====
